---------------------------- MODULE Spec2Model ----------------------------
(***************************************************************************)
(* A model of the local chatbot's memory pipeline:                         *)
(*   ollama_interface.py  get_embedding, get_chat_response                 *)
(*   memory_manager.py    save_conversation_turn, load_raw_history,        *)
(*                        retrieve_relevant_history                        *)
(* The durable log (history.jsonl) is a sequence of lines, the vector      *)
(* index (the ChromaDB collection) a function from turn ids to records.    *)
(* Every handler is one action; the outcomes of the environment (HTTP      *)
(* answers of the inference service, I/O errors of the file and of the     *)
(* index) are inputs of the action.                                        *)
(***************************************************************************)
EXTENDS Integers, Sequences, FiniteSets, TLC

\* ------------------------------------------------------------------ bounds

\* The number of save_conversation_turn calls of one behaviour.
MaxSaves == 2

\* n_results: the default of retrieve_relevant_history, which is also what
\* the conversation loop passes; callers of the model pass it, 1 or 0.
DefaultN == 3
NResults == {0, 1, DefaultN}

TurnIds == {"t1", "t2"}
UserTexts == {"u1", "u2"}
BotTexts == {"b1"}

\* Embedding vectors of dimension 1; <<>> is the empty list.
Vectors == {<<0>>, <<1>>}
EmptyVector == <<>>

\* ------------------------------------------------- Python exception classes

\* The classes an instance of cls is an instance of (its MRO, as far as the
\* except clauses of the program name them).  Since requests 2.27
\* Response.json() raises requests.exceptions.JSONDecodeError, which derives
\* from both InvalidJSONError (a RequestException) and json.JSONDecodeError;
\* before, it raised json.JSONDecodeError itself.
Bases(cls) ==
    CASE cls = "requests.ConnectionError" -> {cls, "RequestException", "IOError"}
      [] cls = "requests.HTTPError" -> {cls, "RequestException", "IOError"}
      [] cls = "requests.JSONDecodeError" ->
            {cls, "RequestException", "IOError", "json.JSONDecodeError", "ValueError"}
      [] cls = "json.JSONDecodeError" -> {cls, "ValueError"}
      [] cls = "KeyError" -> {cls, "LookupError"}
      [] OTHER -> {cls}

\* The class Response.json() raises on a body that is not JSON, by the
\* installed requests library.
RequestsLibs == {"requests<2.27", "requests>=2.27"}
JsonErrorClass(lib) ==
    IF lib = "requests>=2.27" THEN "requests.JSONDecodeError" ELSE "json.JSONDecodeError"

\* try/except: the index of the first clause of `clauses` (a sequence of
\* class names) that matches an exception of class cls, 0 when none does
\* and the exception escapes.
RECURSIVE FirstHandler(_, _, _)
FirstHandler(cls, clauses, i) ==
    IF i > Len(clauses) THEN 0
    ELSE IF clauses[i] \in Bases(cls) THEN i
    ELSE FirstHandler(cls, clauses, i + 1)

\* ------------------------------------------------------ the HTTP responses

\* An answer of the inference service: unreachable, a non-2xx status, or a
\* 2xx status with a body that is not JSON, a JSON object (with `fields`)
\* or another JSON value (an array).
NoFields == [k \in {} |-> 0]
HttpDown == [status |-> "unreachable", body |-> "none", fields |-> NoFields]
HttpError == [status |-> "error", body |-> "none", fields |-> NoFields]
BodyNotJson == [status |-> "ok", body |-> "notjson", fields |-> NoFields]
BodyArray == [status |-> "ok", body |-> "array", fields |-> NoFields]
BodyObject(fields) == [status |-> "ok", body |-> "object", fields |-> fields]

\* The exception the try block's calls raise before the result expression:
\* requests.post, raise_for_status, response.json(); "none" when they succeed.
RequestException(resp, lib) ==
    CASE resp.status = "unreachable" -> "requests.ConnectionError"
      [] resp.status = "error" -> "requests.HTTPError"
      [] resp.body = "notjson" -> JsonErrorClass(lib)
      [] OTHER -> "none"

\* ----------------------------------------------------------- get_embedding

\* A return value of get_embedding, or the exception that escapes it.
EmbeddingNone == [raised |-> FALSE, exc |-> "none", none |-> TRUE, vec |-> EmptyVector]
EmbeddingValue(v) == [raised |-> FALSE, exc |-> "none", none |-> FALSE, vec |-> v]
EmbeddingRaise(cls) == [raised |-> TRUE, exc |-> cls, none |-> TRUE, vec |-> EmptyVector]

EmbeddingResponses ==
    {HttpDown, HttpError, BodyNotJson, BodyArray, BodyObject(NoFields)}
        \cup {BodyObject([k \in {"embedding"} |-> v]) : v \in Vectors \cup {EmptyVector}}

\* The exception of the try block of get_embedding: response.json()["embedding"]
\* raises TypeError on a JSON value that is no object, KeyError on an object
\* without the key.
EmbeddingTryException(resp, lib) ==
    IF RequestException(resp, lib) # "none" THEN RequestException(resp, lib)
    ELSE IF resp.body # "object" THEN "TypeError"
    ELSE IF "embedding" \notin DOMAIN resp.fields THEN "KeyError"
    ELSE "none"

EmbeddingExcepts == <<"RequestException", "KeyError", "json.JSONDecodeError">>

get_embedding(resp, lib) ==
    LET exc == EmbeddingTryException(resp, lib) IN
    IF exc = "none" THEN EmbeddingValue(resp.fields["embedding"])
    ELSE IF FirstHandler(exc, EmbeddingExcepts, 1) = 0 THEN EmbeddingRaise(exc)
    ELSE EmbeddingNone

\* Python's truth value of the embedding: None and [] are false.
Truthy(e) == ~e.none /\ Len(e.vec) > 0

\* What a call of get_embedding can give: the inference service answers
\* whatever it answers, under either requests library.
EmbeddingResults ==
    {get_embedding(resp, lib) : resp \in EmbeddingResponses, lib \in RequestsLibs}

\* ------------------------------------------------------- get_chat_response

TransportFallback == "Sorry, I encountered an error trying to respond."
MalformedFallback == "Sorry, I received an unreadable response."

\* str.strip() on the completions of the model.
Completions == {"", "  ", " hi ", "hi"}
Strip(s) ==
    CASE s = "  " -> ""
      [] s = " hi " -> "hi"
      [] s = " u1 " -> "u1"
      [] OTHER -> s

ChatReturn(t) == [raised |-> FALSE, exc |-> "none", text |-> t]
ChatRaise(cls) == [raised |-> TRUE, exc |-> cls, text |-> ""]

ChatResponses ==
    {HttpDown, HttpError, BodyNotJson, BodyArray, BodyObject(NoFields)}
        \cup {BodyObject([k \in {"response"} |-> c]) : c \in Completions}

\* The exception of the try block of get_chat_response: response_data.get
\* raises AttributeError on a JSON value that is no object.
ChatTryException(resp, lib) ==
    IF RequestException(resp, lib) # "none" THEN RequestException(resp, lib)
    ELSE IF resp.body # "object" THEN "AttributeError"
    ELSE "none"

ChatExcepts == <<"RequestException", "json.JSONDecodeError">>
ChatFallbacks == <<TransportFallback, MalformedFallback>>

get_chat_response(resp, lib) ==
    LET exc == ChatTryException(resp, lib)
        h == FirstHandler(exc, ChatExcepts, 1)
    IN  IF exc = "none"
        THEN ChatReturn(Strip(IF "response" \in DOMAIN resp.fields
                              THEN resp.fields["response"] ELSE ""))
        ELSE IF h = 0 THEN ChatRaise(exc)
        ELSE ChatReturn(ChatFallbacks[h])

\* -------------------------------------------------------------------- JSON

\* A JSON text is a sequence of tokens.  json.dumps of the dict of a turn
\* writes the braces and the key/value pairs in insertion order.
Turn(id, user, bot) == [id |-> id, user |-> user, bot |-> bot]

JsonDumps_NoBot(d) == <<"{", "id", d.id, "user", d.user, "}">>
JsonDumps(d) == <<"{", "id", d.id, "user", d.user, "bot", d.bot, "}">>

\* json.loads accepts a text that opens and closes an object around
\* key/value pairs, and raises json.JSONDecodeError on any other.
IsJson(text) ==
    /\ Len(text) >= 2
    /\ text[1] = "{"
    /\ text[Len(text)] = "}"
    /\ (Len(text) - 2) % 2 = 0

\* The dict json.loads builds: of a repeated key the last value is kept.
JsonLoads(text) ==
    LET pairs == (Len(text) - 2) \div 2
        keys == {text[2 * i] : i \in 1..pairs}
        last(k) == CHOOSE i \in 1..pairs :
                      /\ text[2 * i] = k
                      /\ \A j \in 1..pairs : text[2 * j] = k => j <= i
    IN  [k \in keys |-> text[2 * last(k) + 1]]

\* The loops of load_raw_history and retrieve_relevant_history: the texts
\* that parse, loaded, in order; the others are skipped.
RECURSIVE LoadEach_Abort(_)
LoadEach_Abort(texts) ==
    IF texts = <<>> THEN <<>>
    ELSE IF IsJson(Head(texts))
    THEN <<JsonLoads(Head(texts))>> \o LoadEach_Abort(Tail(texts))
    ELSE <<>>
LoadEach_AllOrNothing(texts) ==
    IF \A i \in 1..Len(texts) : IsJson(texts[i])
    THEN [i \in 1..Len(texts) |-> JsonLoads(texts[i])]
    ELSE <<>>
RECURSIVE LoadEach(_)
LoadEach(texts) ==
    IF texts = <<>> THEN <<>>
    ELSE IF IsJson(Head(texts)) THEN <<JsonLoads(Head(texts))>> \o LoadEach(Tail(texts))
    ELSE LoadEach(Tail(texts))

\* ---------------------------------------------------------- the two stores

VARIABLES
    collection,  \* TRUE when the ChromaDB collection was opened at import
    history,     \* history.jsonl: whether it exists, and its lines
    index,       \* the records of the collection, by id
    saves,       \* the save_conversation_turn calls made so far (history variable)
    last,        \* the last call: its arguments and what the environment did
    calls,       \* the calls the last operation made on the stores and on the client
    out,         \* the messages the last operation printed
    docs,        \* the list the last retrieve / load returned
    reply,       \* the string the last get_chat_response returned
    loop         \* main(): where its loop stands, and the locals of the round

vars == <<collection, history, index, saves, last, calls, out, docs, reply, loop>>

\* main() is not running: the functions are called on their own.
LoopIdle ==
    [pc |-> "idle", user_input |-> "", turn_id |-> "", clock |-> 0,
     relevant |-> <<>>, context |-> <<>>, prompt |-> <<>>, bot_response |-> "",
     shown |-> <<>>, trace |-> <<>>, rounds |-> 0, ids |-> <<>>]

NoHistory == [exists |-> FALSE, lines |-> <<>>]
NoIndex == [i \in {} |-> 0]

\* open(HISTORY_FILE_PATH, "a") and f.write(line + "\n"): open creates the
\* file; on an IOError nothing is created and nothing is written.
LogOutcomes == {"ok", "error"}
HistoryAppend(h, line, outcome) ==
    IF outcome = "ok"
    THEN [exists |-> TRUE, lines |-> Append(h.lines, line)]
    ELSE h

\* load_raw_history: [] when the file does not exist or cannot be read.
load_raw_history(h, readOk) ==
    IF ~h.exists THEN <<>>
    ELSE IF ~readOk THEN <<>>
    ELSE LoadEach(h.lines)

\* collection.add of one record.  ok = FALSE: the call raises and adds
\* nothing.  The collection never replaces the record of an id it holds:
\* chromadb (>= 0.4, which has PersistentClient) ignores such an add without
\* raising.
IndexRecord(id, embedding, document) ==
    [embedding |-> embedding, document |-> document,
     metadata |-> [source |-> "conversation_history", turn_id |-> id]]
CollectionAdd(ix, id, embedding, document, ok) ==
    IF ~ok THEN ix
    ELSE IF id \in DOMAIN ix THEN ix
    ELSE [i \in DOMAIN ix \cup {id} |->
            IF i = id THEN IndexRecord(id, embedding, document) ELSE ix[i]]

\* collection.count()
CollectionCount(ix) == Cardinality(DOMAIN ix)

\* collection.query: the ids of the n nearest records, nearest first; the
\* order of records at the same distance is the collection's choice.  Asked
\* for more records than it holds, the collection returns them all.
Distance(a, b) == IF a[1] >= b[1] THEN a[1] - b[1] ELSE b[1] - a[1]
CollectionQuery_Farthest(ix, q, n) ==
    LET k == IF n <= Cardinality(DOMAIN ix) THEN n ELSE Cardinality(DOMAIN ix) IN
    {s \in [1..k -> DOMAIN ix] :
        /\ \A i, j \in 1..k : i < j =>
              /\ s[i] # s[j]
              /\ Distance(ix[s[i]].embedding, q) >= Distance(ix[s[j]].embedding, q)
        /\ \A id \in DOMAIN ix : \A i \in 1..k :
              (\A j \in 1..k : s[j] # id) =>
                  Distance(ix[s[i]].embedding, q) >= Distance(ix[id].embedding, q)}
CollectionQuery(ix, q, n) ==
    LET k == IF n <= Cardinality(DOMAIN ix) THEN n ELSE Cardinality(DOMAIN ix) IN
    {s \in [1..k -> DOMAIN ix] :
        /\ \A i, j \in 1..k : i < j =>
              /\ s[i] # s[j]
              /\ Distance(ix[s[i]].embedding, q) <= Distance(ix[s[j]].embedding, q)
        /\ \A id \in DOMAIN ix : \A i \in 1..k :
              (\A j \in 1..k : s[j] # id) =>
                  Distance(ix[s[i]].embedding, q) <= Distance(ix[id].embedding, q)}

Min(a, b) == IF a <= b THEN a ELSE b

\* ---------------------------------------------------------------- the calls

\* What the last call was and what happened in it: the turn saved, n_results,
\* how get_embedding ended ("ok": a usable vector, "none": None or [],
\* "raised": an exception escaped it), the query embedding or the value the
\* client returned, and how the file and the collection answered ("skipped"
\* when the call did not reach them).
NoTurn == Turn("", "", "")
EmbKind(e) ==
    IF e.raised THEN "raised" ELSE IF Truthy(e) THEN "ok" ELSE "none"
Last(op, turn, n, kind, emb, log, store) ==
    [op |-> op, turn |-> turn, n |-> n, kind |-> kind, emb |-> emb,
     log |-> log, store |-> store]

Init ==
    /\ collection \in BOOLEAN
    /\ history = NoHistory
    /\ index = NoIndex
    /\ saves = <<>>
    /\ last = Last("none", NoTurn, 0, "skipped", EmbeddingNone, "skipped", "skipped")
    /\ calls = <<>>
    /\ out = <<>>
    /\ docs = <<>>
    /\ reply = ChatReturn("")
    /\ loop = LoopIdle

\* ---- save_conversation_turn

\* Step 1: the line appended to history.jsonl.
SaveHistory_Skipped(h, turn, outcome) == h
SaveHistory_Truncating(h, turn, outcome) ==
    IF outcome = "ok" THEN [exists |-> TRUE, lines |-> <<JsonDumps(turn)>>] ELSE h
SaveHistory(h, turn, outcome) == HistoryAppend(h, JsonDumps(turn), outcome)

\* Step 2: the record added to the collection, when there is an embedding.
SaveIndex_Always(ix, turn, emb, addOk) ==
    CollectionAdd(ix, turn.id, emb.vec, JsonDumps(turn), addOk)
SaveIndex(ix, turn, emb, addOk) ==
    IF Truthy(emb)
    THEN CollectionAdd(ix, turn.id, emb.vec, JsonDumps(turn), addOk)
    ELSE ix

\* What step 2 prints.
SaveIndexReport(emb, addOk) ==
    IF Truthy(emb)
    THEN IF addOk THEN <<>> ELSE <<"add_error">>
    ELSE <<"no_embedding">>

\* The call returns at once when the collection is not there.
SaveGuard(c) == ~c

\* The calls of steps 1 and 2, in the order the function makes them.
SaveCalls_EmbedFirst(embedding) ==
    <<"embed">> \o (IF Truthy(embedding) THEN <<"index_add">> ELSE <<>>)
        \o <<"file_append">>
SaveCalls(embedding) ==
    <<"file_append", "embed">>
        \o (IF Truthy(embedding) THEN <<"index_add">> ELSE <<>>)

save_conversation_turn(user_message, bot_message, turn_id, logOutcome, embedding, addOk) ==
    LET turn_data == Turn(turn_id, user_message, bot_message)
        done ==
            IF SaveGuard(collection)
            THEN Last("save", turn_data, 0, "skipped", EmbeddingNone, "skipped", "skipped")
            ELSE Last("save", turn_data, 0, EmbKind(embedding), EmbeddingNone, logOutcome,
                      IF ~Truthy(embedding) THEN "skipped"
                      ELSE IF addOk THEN "ok" ELSE "error")
    IN  /\ Len(saves) < MaxSaves
        /\ IF SaveGuard(collection)
           THEN /\ UNCHANGED <<history, index>>
                /\ calls' = <<>>
                /\ out' = <<"not_initialized">>
           ELSE /\ history' = SaveHistory(history, turn_data, logOutcome)
                /\ index' = IF embedding.raised THEN index
                            ELSE SaveIndex(index, turn_data, embedding, addOk)
                /\ calls' = SaveCalls(embedding)
                /\ out' = (IF logOutcome = "ok" THEN <<>> ELSE <<"history_error">>)
                              \o (IF embedding.raised THEN <<>>
                                  ELSE SaveIndexReport(embedding, addOk))
        /\ last' = done
        /\ saves' = Append(saves, done)
        /\ docs' = <<>>
        /\ reply' = ChatReturn("")
        /\ UNCHANGED collection

SaveTurn ==
    \E u \in UserTexts, b \in BotTexts, id \in TurnIds,
       lo \in (IF collection THEN LogOutcomes ELSE {"ok"}),
       embedding \in (IF collection THEN EmbeddingResults ELSE {EmbeddingNone}) :
        \E addOk \in (IF Truthy(embedding) THEN BOOLEAN ELSE {TRUE}) :
            /\ save_conversation_turn(u, b, id, lo, embedding, addOk)
            /\ UNCHANGED loop

\* ---- load_raw_history

LoadAll_Truncating ==
    \E readOk \in BOOLEAN :
        /\ docs' = load_raw_history(history, readOk)
        /\ calls' = IF history.exists THEN <<"file_read">> ELSE <<>>
        /\ out' = IF history.exists /\ ~readOk THEN <<"history_error">> ELSE <<>>
        /\ last' = Last("load", NoTurn, 0, "skipped", EmbeddingNone,
                        IF ~history.exists THEN "skipped"
                        ELSE IF readOk THEN "ok" ELSE "error", "skipped")
        /\ reply' = ChatReturn("")
        /\ history' = [exists |-> TRUE, lines |-> <<>>]
        /\ UNCHANGED <<collection, index, saves, loop>>

LoadAll ==
    \E readOk \in BOOLEAN :
        /\ docs' = load_raw_history(history, readOk)
        /\ calls' = IF history.exists THEN <<"file_read">> ELSE <<>>
        /\ out' = IF history.exists /\ ~readOk THEN <<"history_error">> ELSE <<>>
        /\ last' = Last("load", NoTurn, 0, "skipped", EmbeddingNone,
                        IF ~history.exists THEN "skipped"
                        ELSE IF readOk THEN "ok" ELSE "error", "skipped")
        /\ reply' = ChatReturn("")
        /\ UNCHANGED <<collection, history, index, saves, loop>>

\* ---- retrieve_relevant_history

\* The documents of the records a query returned, in its order.
Documents(ix, ids) == [i \in 1..Len(ids) |-> ix[ids[i]].document]

\* actual_n_results: n_results clamped to the number of records.
ActualN_OffByOne(n_results, count) == Min(n_results, count - 1)
ActualN(n_results, count) == Min(n_results, count)

\* The two checks before the query embedding is asked for: an empty
\* collection, and nothing to ask for.
RetrieveNothing_Unchecked(n_results, count) == FALSE
RetrieveNothing(n_results, count) ==
    count = 0 \/ ActualN(n_results, count) <= 0

\* What a call can end with: the list returned, the calls made, the messages.
Retrieved(d, c, o, l) == [docs |-> d, calls |-> c, out |-> o, last |-> l]

\* The query text reaches the collection only through get_embedding, whose
\* answer the inference service decides; `last` keeps it as the user text of
\* an otherwise empty turn.
Query(query_text) == Turn("", query_text, "")

retrieve_relevant_history(query_text, n_results, countOk, query_embedding, queryOk) ==
    LET count == CollectionCount(index)
        actual_n_results == ActualN(n_results, count)
        L(emb, store) ==
            Last("retrieve", Query(query_text), n_results, EmbKind(emb), emb, "skipped", store)
        skipped == Last("retrieve", Query(query_text), n_results, "skipped", EmbeddingNone,
                        "skipped", "skipped")
        counted(ok) == Last("retrieve", Query(query_text), n_results, "skipped", EmbeddingNone,
                            "skipped", IF ok THEN "ok" ELSE "error")
    IN  IF ~collection
        THEN {Retrieved(<<>>, <<>>, <<"not_initialized">>, skipped)}
        ELSE IF ~countOk
        THEN {Retrieved(<<>>, <<"count">>, <<"count_error">>, counted(FALSE))}
        ELSE IF RetrieveNothing(n_results, count)
        THEN {Retrieved(<<>>, <<"count">>, <<>>, counted(TRUE))}
        ELSE IF query_embedding.raised
        THEN {Retrieved(<<>>, <<"count", "embed">>, <<>>, L(query_embedding, "ok"))}
        ELSE IF ~Truthy(query_embedding)
        THEN {Retrieved(<<>>, <<"count", "embed">>, <<"no_query_embedding">>,
                        L(query_embedding, "ok"))}
        ELSE IF ~queryOk
        THEN {Retrieved(<<>>, <<"count", "embed", "query">>, <<"query_error">>,
                        L(query_embedding, "error"))}
        ELSE {Retrieved(LoadEach(Documents(index, ids)), <<"count", "embed", "query">>,
                        <<>>, L(query_embedding, "ok")) :
                 ids \in CollectionQuery(index, query_embedding.vec, actual_n_results)}

RetrieveRelevant ==
    \E r \in UNION {retrieve_relevant_history(query_text, n, countOk, embedding, queryOk) :
                       query_text \in UserTexts, n \in NResults, countOk \in BOOLEAN,
                       embedding \in EmbeddingResults, queryOk \in BOOLEAN} :
        /\ docs' = r.docs
        /\ calls' = r.calls
        /\ out' = r.out
        /\ last' = r.last
        /\ reply' = ChatReturn("")
        /\ UNCHANGED <<collection, history, index, saves, loop>>

\* ---- the client, called on its own

\* The body of an answer, as far as the key the client reads is concerned.
BodyKind(resp, key) ==
    IF resp.body = "object" /\ key \notin DOMAIN resp.fields
    THEN "object_without_key"
    ELSE resp.body

Embed ==
    \E resp \in EmbeddingResponses, lib \in RequestsLibs :
        /\ last' = Last("embed", NoTurn, 0, EmbKind(get_embedding(resp, lib)),
                        get_embedding(resp, lib), resp.status,
                        BodyKind(resp, "embedding"))
        /\ calls' = <<"embed">>
        /\ out' = <<>>
        /\ docs' = <<>>
        /\ reply' = ChatReturn("")
        /\ UNCHANGED <<collection, history, index, saves, loop>>

Chat ==
    \E resp \in ChatResponses, lib \in RequestsLibs :
        /\ reply' = get_chat_response(resp, lib)
        /\ last' = Last("chat", NoTurn, 0, "skipped", EmbeddingNone, resp.status,
                        BodyKind(resp, "response"))
        /\ calls' = <<"generate">>
        /\ out' = <<>>
        /\ docs' = <<>>
        /\ UNCHANGED <<collection, history, index, saves, loop>>

Next == SaveTurn \/ LoadAll \/ RetrieveRelevant \/ Embed \/ Chat

Spec == Init /\ [][Next]_vars

\* ---- the stores as an earlier session left them, damaged or not

\* The longest history.jsonl the reads start from.
MaxLines == 3

\* A line or a document that json.loads rejects: cut short, or empty.
CutShort == <<"{", "id", "t1", "user">>
EmptyText == <<>>

\* Lines of the file: turns as save_conversation_turn writes them, and
\* damaged ones.
StoredLines ==
    {JsonDumps(Turn(id, "u1", "b1")) : id \in TurnIds} \cup {CutShort, EmptyText}
StoredHistories ==
    {NoHistory} \cup
    {[exists |-> TRUE, lines |-> ls] :
        ls \in UNION {[1..n -> StoredLines] : n \in 0..MaxLines}}

\* Records of the collection: under each id nothing, or a record whose
\* document is the turn as written or a damaged text.
StoredIndexes ==
    UNION {[ids -> Vectors \X {"written", "damaged"}] : ids \in SUBSET TurnIds}
StoredRecord(id, r) ==
    IndexRecord(id, r[1],
                IF r[2] = "written" THEN JsonDumps(Turn(id, "u1", "b1")) ELSE CutShort)

InitStored ==
    /\ collection = TRUE
    /\ history \in StoredHistories
    /\ \E ix \in StoredIndexes :
          index = [id \in DOMAIN ix |-> StoredRecord(id, ix[id])]
    /\ saves = <<>>
    /\ last = Last("none", NoTurn, 0, "skipped", EmbeddingNone, "skipped", "skipped")
    /\ calls = <<>>
    /\ out = <<>>
    /\ docs = <<>>
    /\ reply = ChatReturn("")
    /\ loop = LoopIdle

NextStored == RetrieveRelevant \/ LoadAll

SpecStored == InitStored /\ [][NextStored]_vars

\* ---- chat.py: the text of the prompt

\* A string built by an f-string is the sequence of its pieces; "\n" is a
\* piece of its own, the empty string is the empty sequence.
NL == "\n"
NotAvailable == "N/A"
Get(doc, key) == IF key \in DOMAIN doc THEN doc[key] ELSE NotAvailable

ContextHeader == "Relevant past conversation snippets (most relevant first):"
Separator == "---"

RECURSIVE Snippets_NoTrailing(_)
Snippets_NoTrailing(ds) ==
    IF ds = <<>> THEN <<>>
    ELSE <<"User: ", Get(Head(ds), "user"), NL, "Bot: ", Get(Head(ds), "bot"), NL>>
             \o (IF Tail(ds) = <<>> THEN <<>> ELSE <<Separator, NL>>)
             \o Snippets_NoTrailing(Tail(ds))
RECURSIVE Snippets(_)
Snippets(ds) ==
    IF ds = <<>> THEN <<>>
    ELSE <<"User: ", Get(Head(ds), "user"), NL, "Bot: ", Get(Head(ds), "bot"), NL,
           Separator, NL>> \o Snippets(Tail(ds))

format_retrieved_history_for_prompt_HeaderAlways(retrieved_docs) ==
    <<ContextHeader, NL, Separator, NL>> \o Snippets(retrieved_docs)
format_retrieved_history_for_prompt(retrieved_docs) ==
    IF retrieved_docs = <<>> THEN <<>>
    ELSE <<ContextHeader, NL, Separator, NL>> \o Snippets(retrieved_docs)

system_prompt ==
    "You are a helpful and friendly conversational AI. Your goal is to assist the user based on the current conversation and any relevant past snippets provided. If past snippets are given, use them to remember details like names, preferences, or previous topics. If no relevant past snippets are provided, or if they don't seem relevant to the current question, answer based on the current question alone."

final_prompt_for_llm(formatted_context, user_input) ==
    <<system_prompt, NL, NL>>
        \o (IF formatted_context # <<>> THEN formatted_context \o <<NL>> ELSE <<>>)
        \o <<"Current conversation:", NL, "User: ", user_input, NL, "Bot:">>

\* ---- chat.py: main()

\* What the user types at the prompt.
RawInputs == {"", "  ", "quit", "EXIT", " u1 "}
Lower(s) == CASE s = "EXIT" -> "exit" [] OTHER -> s
QuitCommands == {"quit", "exit"}

\* generate_turn_id: the second the clock shows and the first eight hex
\* digits of a random uuid.
Seconds == {0, 1}
HexDigits == {"0000000a", "0000000b"}
generate_turn_id(now, hex8) ==
    CASE now = 0 /\ hex8 = "0000000a" -> "turn_0_0000000a"
      [] now = 0 /\ hex8 = "0000000b" -> "turn_0_0000000b"
      [] now = 1 /\ hex8 = "0000000a" -> "turn_1_0000000a"
      [] now = 1 /\ hex8 = "0000000b" -> "turn_1_0000000b"

Apology == "I'm sorry, I had trouble generating a response. Could you try rephrasing?"

\* input(), strip, the two early exits, and the id of the round.
ReadInput ==
    /\ loop.pc = "input"
    /\ Len(saves) < MaxSaves
    /\ \E raw \in RawInputs, now \in {t \in Seconds : t >= loop.clock},
          hex8 \in HexDigits :
          LET user_input == Strip(raw)
              fresh == [LoopIdle EXCEPT !.pc = "input", !.clock = loop.clock,
                                        !.rounds = loop.rounds, !.ids = loop.ids,
                                        !.user_input = user_input]
          IN  loop' = IF user_input = "" THEN fresh
                      ELSE IF Lower(user_input) \in QuitCommands
                      THEN [fresh EXCEPT !.pc = "ended"]
                      ELSE [fresh EXCEPT !.pc = "retrieve",
                                         !.turn_id = generate_turn_id(now, hex8),
                                         !.clock = now,
                                         !.rounds = @ + 1]
    /\ UNCHANGED <<collection, history, index, saves, last, calls, out, docs, reply>>

\* 1. retrieve_relevant_history(user_input, n_results=3); an exception that
\* escapes it ends main().
LoopRetrieve ==
    /\ loop.pc = "retrieve"
    /\ \E r \in UNION {retrieve_relevant_history(loop.user_input, DefaultN, countOk,
                                                 embedding, queryOk) :
                          countOk \in BOOLEAN, embedding \in EmbeddingResults,
                          queryOk \in BOOLEAN} :
          /\ docs' = r.docs
          /\ calls' = r.calls
          /\ out' = r.out
          /\ last' = r.last
          /\ reply' = ChatReturn("")
          /\ loop' = [loop EXCEPT !.trace = Append(@, "retrieve_relevant"),
                                  !.relevant = r.docs,
                                  !.pc = IF r.last.kind = "raised" THEN "crashed"
                                         ELSE "format"]
    /\ UNCHANGED <<collection, history, index, saves>>

\* 2. format_retrieved_history_for_prompt(relevant_history_docs)
LoopFormat ==
    /\ loop.pc = "format"
    /\ loop' = [loop EXCEPT !.trace = Append(@, "format_context"),
                            !.context = format_retrieved_history_for_prompt(loop.relevant),
                            !.pc = "assemble"]
    /\ UNCHANGED <<collection, history, index, saves, last, calls, out, docs, reply>>

\* 3. the prompt
LoopAssemble ==
    /\ loop.pc = "assemble"
    /\ loop' = [loop EXCEPT !.trace = Append(@, "assemble_prompt"),
                            !.prompt = final_prompt_for_llm(loop.context, loop.user_input),
                            !.pc = "generate"]
    /\ UNCHANGED <<collection, history, index, saves, last, calls, out, docs, reply>>

\* 4. get_chat_response, the apology for an empty answer, and the print.
LoopGenerate ==
    /\ loop.pc = "generate"
    /\ \E resp \in ChatResponses, lib \in RequestsLibs :
          LET r == get_chat_response(resp, lib)
              bot_response == IF r.text = "" THEN Apology ELSE r.text
          IN  /\ reply' = r
              /\ last' = Last("chat", NoTurn, 0, "skipped", EmbeddingNone, resp.status,
                              BodyKind(resp, "response"))
              /\ loop' = IF r.raised
                         THEN [loop EXCEPT !.trace = Append(@, "generate"),
                                           !.pc = "crashed"]
                         ELSE [loop EXCEPT !.trace = Append(@, "generate"),
                                           !.bot_response = bot_response,
                                           !.shown = <<bot_response>>,
                                           !.pc = "save"]
    /\ calls' = <<"generate">>
    /\ out' = <<>>
    /\ docs' = <<>>
    /\ UNCHANGED <<collection, history, index, saves>>

\* 5. save_conversation_turn(user_input, bot_response, turn_id=current_turn_id)
LoopSave ==
    /\ loop.pc = "save"
    /\ \E lo \in (IF collection THEN LogOutcomes ELSE {"ok"}),
          embedding \in (IF collection THEN EmbeddingResults ELSE {EmbeddingNone}) :
          \E addOk \in (IF Truthy(embedding) THEN BOOLEAN ELSE {TRUE}) :
              /\ save_conversation_turn(loop.user_input, loop.bot_response,
                                        loop.turn_id, lo, embedding, addOk)
              /\ loop' = [loop EXCEPT !.trace = Append(@, "save_turn"),
                                      !.ids = Append(@, loop.turn_id),
                                      !.pc = IF embedding.raised THEN "crashed"
                                             ELSE "input"]

InitLoop ==
    /\ collection \in BOOLEAN
    /\ history = NoHistory
    /\ index = NoIndex
    /\ saves = <<>>
    /\ last = Last("none", NoTurn, 0, "skipped", EmbeddingNone, "skipped", "skipped")
    /\ calls = <<>>
    /\ out = <<>>
    /\ docs = <<>>
    /\ reply = ChatReturn("")
    /\ loop = [LoopIdle EXCEPT !.pc = "input"]

NextLoop ==
    ReadInput \/ LoopRetrieve \/ LoopFormat \/ LoopAssemble \/ LoopGenerate \/ LoopSave

SpecLoop == InitLoop /\ [][NextLoop]_vars

\* ---- the two text functions on their own

\* The longest list of retrieved documents formatted.
MaxDocs == 3

\* Retrieved documents: turns, and a JSON object without its "bot" key.
FormatDocs ==
    {Turn("t1", "u1", "b1"), Turn("t2", "u2", "b1"), [id |-> "t1", user |-> "u1"]}
FormatInputs == UNION {[1..n -> FormatDocs] : n \in 0..MaxDocs}

InitFormat ==
    /\ collection = TRUE
    /\ history = NoHistory
    /\ index = NoIndex
    /\ saves = <<>>
    /\ last = Last("none", NoTurn, 0, "skipped", EmbeddingNone, "skipped", "skipped")
    /\ calls = <<>>
    /\ out = <<>>
    /\ docs = <<>>
    /\ reply = ChatReturn("")
    /\ \E ds \in FormatInputs, u \in UserTexts :
          loop = [LoopIdle EXCEPT !.pc = "format", !.user_input = u, !.relevant = ds,
                                  !.rounds = 1, !.trace = <<"retrieve_relevant">>]

NextFormat == LoopFormat \/ LoopAssemble

SpecFormat == InitFormat /\ [][NextFormat]_vars

\* ----------------------------------------------------------------- claims

Range(seq) == {seq[i] : i \in 1..Len(seq)}
IsPrefix(a, b) == Len(a) <= Len(b) /\ \A i \in 1..Len(a) : a[i] = b[i]

\* What load_all() returns in this state, the file being readable.
LogTurns == load_raw_history(history, TRUE)
\* The turns passed to save_turn so far, in call order.
SavedTurns == [i \in 1..Len(saves) |-> saves[i].turn]
\* The save_turn call that wrote the index record of id: the first one with
\* that id whose embedding succeeded and whose add did not raise.
IsIndexing(i, id) ==
    saves[i].turn.id = id /\ saves[i].kind = "ok" /\ saves[i].store = "ok"
IndexingSave(id) ==
    CHOOSE i \in 1..Len(saves) :
        IsIndexing(i, id) /\ \A j \in 1..Len(saves) : IsIndexing(j, id) => i <= j

\* C1: after any sequence of save_turn calls in which no log write failed,
\* load_all() returns exactly the saved turns in save order, whatever failed
\* on the index side: index not initialized, embedding failure, add failure.
C1_LoadAllReturnsSavedTurns ==
    (\A i \in 1..Len(saves) : saves[i].log # "error") => LogTurns = SavedTurns

\* C2: a turn whose save_turn had its embedding call fail (None, [] or an
\* escaping exception) while the log append succeeded is in load_all(); and
\* unless another save_turn of the same id had its embedding succeed, the id
\* has no index record and no retrieve_relevant result holds the turn.
C2_EmbeddingFailureLogOnly ==
    \A i \in 1..Len(saves) :
        (saves[i].kind \in {"none", "raised"} /\ saves[i].log = "ok") =>
            /\ saves[i].turn \in Range(LogTurns)
            /\ (\A j \in 1..Len(saves) :
                    saves[j].turn.id = saves[i].turn.id => saves[j].kind # "ok") =>
                  /\ saves[i].turn.id \notin DOMAIN index
                  /\ last.op = "retrieve" => saves[i].turn \notin Range(docs)

\* C2 witness: after an indexed turn and a turn whose embedding failed, a
\* retrieval returned the indexed one only.
C2_Witness ==
    /\ last.op = "retrieve"
    /\ docs # <<>>
    /\ \E i \in 1..Len(saves) :
          /\ saves[i].kind = "none"
          /\ saves[i].log = "ok"
          /\ saves[i].turn.id \notin DOMAIN index
          /\ saves[i].turn \in Range(LogTurns)

\* C3: get_chat_response returns the transport fallback when the backend is
\* unreachable or answers non-2xx, and the malformed fallback when the body
\* is not JSON; the two differ from each other and from the empty string.
C3_ChatFallbacks ==
    /\ TransportFallback # MalformedFallback
    /\ TransportFallback # ""
    /\ MalformedFallback # ""
    /\ last.op = "chat" =>
          /\ last.log \in {"unreachable", "error"} => reply = ChatReturn(TransportFallback)
          /\ last.store = "notjson" => reply = ChatReturn(MalformedFallback)

\* C4 (as stated): every id with an index record has an entry in the log,
\* under any combination of log-write, embedding and index-add failures.
C4_IndexSubsetLog ==
    \A id \in DOMAIN index : \E t \in Range(LogTurns) : t.id = id

\* C4 (amended): every id with an index record has an entry in the log,
\* provided the log write of the save_turn call that indexed it did not fail.
C4_IndexSubsetLogUnlessLogFailed ==
    \A id \in DOMAIN index :
        /\ \E i \in 1..Len(saves) : IsIndexing(i, id)
        /\ saves[IndexingSave(id)].log = "ok" =>
              saves[IndexingSave(id)].turn \in Range(LogTurns)

\* C4 witness: one turn in both stores, another in the log only because its
\* add to the index raised.
C4_Witness ==
    /\ Cardinality(DOMAIN index) = 1
    /\ Len(LogTurns) = 2
    /\ \A id \in DOMAIN index : \E t \in Range(LogTurns) : t.id = id
    /\ \E i \in 1..Len(saves) : saves[i].store = "error"

\* C5: a save_turn whose id already has an index record gets an error from
\* the index add, which it reports, and the record of that id is unchanged.
C5_DuplicateIdIsAnError ==
    [][(/\ last'.op = "save"
        /\ "index_add" \in Range(calls')
        /\ last'.turn.id \in DOMAIN index) =>
            /\ "add_error" \in Range(out')
            /\ index'[last'.turn.id] = index[last'.turn.id]]_vars

\* C6: a retrieve_relevant(q, n) whose query embedding and query succeed, on
\* an index of m records with 0 < m < n, returns exactly m results.
C6_ClampedToCount ==
    (/\ last.op = "retrieve"
     /\ last.kind = "ok"
     /\ last.store = "ok"
     /\ 0 < CollectionCount(index)
     /\ CollectionCount(index) < last.n) =>
        Len(docs) = CollectionCount(index)

\* C6 witness: n = 3 asked of an index of two records, two results returned.
C6_Witness ==
    /\ last.op = "retrieve"
    /\ last.kind = "ok"
    /\ last.store = "ok"
    /\ CollectionCount(index) = 2
    /\ last.n = DefaultN
    /\ Len(docs) = 2
    /\ calls = <<"count", "embed", "query">>

\* C7: with the index uninitialized or empty, retrieve_relevant returns the
\* empty list and makes no embed call.
C7_EmptyIndexNoEmbed ==
    (last.op = "retrieve" /\ (~collection \/ CollectionCount(index) = 0)) =>
        /\ docs = <<>>
        /\ "embed" \notin Range(calls)

\* C7 witness: a retrieval with n > 0 on an initialized index that is empty
\* although a turn was saved; it counted and did nothing else.
C7_Witness ==
    /\ last.op = "retrieve"
    /\ collection
    /\ last.n > 0
    /\ Len(saves) > 0
    /\ CollectionCount(index) = 0
    /\ calls = <<"count">>
    /\ docs = <<>>

\* C8: get_embedding lets no exception escape and returns None on a
\* transport error, on a body that is not JSON and on a JSON body without
\* the embedding field.
C8_EmbedNeverRaises ==
    last.op = "embed" =>
        /\ ~last.emb.raised
        /\ (\/ last.log \in {"unreachable", "error"}
            \/ last.store \in {"notjson", "array", "object_without_key"}) =>
              last.emb = EmbeddingNone

\* C9: in every save_turn the log append and the embedding are both
\* attempted, whatever fails on the other side: after a failed log write a
\* turn whose embedding and add succeed is in the index, and a failure of
\* the index side leaves the log append attempted.
C9_StoresIndependent ==
    last.op = "save" =>
        /\ "file_append" \in Range(calls)
        /\ "embed" \in Range(calls)
        /\ (last.log = "error" /\ last.kind = "ok" /\ last.store = "ok") =>
              last.turn.id \in DOMAIN index

\* C10: the log is append-only: every operation leaves the lines it found
\* as a prefix of the lines it leaves.
C10_LogAppendOnly ==
    [][IsPrefix(history.lines, history'.lines)]_vars

\* C10 witness: a second line was appended by a save_turn whose embedding
\* failed, and both lines are there.
C10_Witness ==
    /\ last.op = "save"
    /\ last.log = "ok"
    /\ last.kind = "none"
    /\ Len(history.lines) = 2
    /\ history.lines[2] = JsonDumps(last.turn)

\* C14: in every save_turn call the log append is attempted before the
\* embed call and before the index add, and every index record was written
\* by a call that had attempted its log append.
C14_LogBeforeIndex ==
    /\ last.op = "save" =>
          \A i \in 1..Len(calls) :
              calls[i] \in {"embed", "index_add"} =>
                  \E j \in 1..(i - 1) : calls[j] = "file_append"
    /\ \A id \in DOMAIN index :
          /\ \E i \in 1..Len(saves) : IsIndexing(i, id)
          /\ saves[IndexingSave(id)].log \in LogOutcomes

\* C14 witness: a save_turn that appended, embedded and added, in that order.
C14_Witness ==
    /\ last.op = "save"
    /\ calls = <<"file_append", "embed", "index_add">>
    /\ last.log = "ok"
    /\ last.turn.id \in DOMAIN index
    /\ JsonDumps(last.turn) \in Range(history.lines)

\* C19: every turn retrieve_relevant returns has the id, user text and bot
\* text of a turn passed earlier to a save_turn whose embedding succeeded.
C19_RetrievedWereSaved ==
    last.op = "retrieve" =>
        \A k \in 1..Len(docs) :
            \E i \in 1..Len(saves) :
                /\ saves[i].kind = "ok"
                /\ DOMAIN docs[k] = {"id", "user", "bot"}
                /\ docs[k].id = saves[i].turn.id
                /\ docs[k].user = saves[i].turn.user
                /\ docs[k].bot = saves[i].turn.bot

\* C19 witness: a retrieval returned two different turns, both saved before.
C19_Witness ==
    /\ last.op = "retrieve"
    /\ Len(docs) = 2
    /\ docs[1] # docs[2]
    /\ \A k \in 1..2 : \E i \in 1..Len(saves) : docs[k] = saves[i].turn

\* The texts that parse among `texts`, loaded, in their order: the k-th
\* result is the load of the k-th text that parses.
Parsing(texts) == {i \in 1..Len(texts) : IsJson(texts[i])}
KthParsing(texts, k) ==
    CHOOSE i \in Parsing(texts) : Cardinality({j \in Parsing(texts) : j <= i}) = k
IsLoadOfParsing(result, texts) ==
    /\ Len(result) = Cardinality(Parsing(texts))
    /\ \A k \in 1..Len(result) : result[k] = JsonLoads(texts[KthParsing(texts, k)])

\* C16: retrieve_relevant returns the documents of the query that
\* deserialize, in the query's order, and skips exactly the others.
C16_CorruptDocumentsSkipped ==
    (last.op = "retrieve" /\ last.kind = "ok" /\ last.store = "ok") =>
        \E ids \in CollectionQuery(index, last.emb.vec,
                                   ActualN(last.n, CollectionCount(index))) :
            IsLoadOfParsing(docs, Documents(index, ids))

\* C16 witness: of two records asked for, the damaged one was skipped and
\* the other returned.
C16_Witness ==
    /\ last.op = "retrieve"
    /\ last.n = DefaultN
    /\ CollectionCount(index) = 2
    /\ \E id \in DOMAIN index : ~IsJson(index[id].document)
    /\ Len(docs) = 1
    /\ calls = <<"count", "embed", "query">>

\* C17: load_all() returns, in file order, exactly the entries of the lines
\* that parse; a line that does not parse is skipped, wherever it stands.
C17_MalformedLinesSkipped ==
    (last.op = "load" /\ last.log = "ok") => IsLoadOfParsing(docs, history.lines)

\* C17 witness: the second of three lines is damaged; the first and the
\* third were loaded.
C17_Witness ==
    /\ last.op = "load"
    /\ Len(history.lines) = 3
    /\ ~IsJson(history.lines[2])
    /\ Len(docs) = 2
    /\ docs[1] = Turn("t1", "u1", "b1")
    /\ docs[2] = Turn("t2", "u1", "b1")

\* C18: retrieve_relevant and load_all leave the log and the index records
\* as they found them, on every path.
C18_ReadsChangeNothing ==
    [][last'.op \in {"retrieve", "load"} => (history' = history /\ index' = index)]_vars

\* C18 witness: the file and the index both hold entries, some of them
\* damaged, and a load returned the sound lines.
C18_Witness ==
    /\ last.op = "load"
    /\ last.log = "ok"
    /\ docs # <<>>
    /\ Len(docs) < Len(history.lines)
    /\ \E id \in DOMAIN index : ~IsJson(index[id].document)

\* A retrieval of one result that went through, made with the user phrase
\* of the latest save_turn call, which indexed its turn.
RoundTrip ==
    /\ last.op = "retrieve"
    /\ last.n = 1
    /\ last.kind = "ok"
    /\ last.store = "ok"
    /\ saves # <<>>
    /\ saves[Len(saves)].kind = "ok"
    /\ saves[Len(saves)].store = "ok"
    /\ saves[Len(saves)].turn.user = last.turn.user
RoundTripId == saves[Len(saves)].turn.id
StrictlyNearest(id, q) ==
    /\ id \in DOMAIN index
    /\ \A other \in DOMAIN index \ {id} :
          Distance(index[id].embedding, q) < Distance(index[other].embedding, q)

\* C13: saving a turn and then retrieving with its user phrase and n = 1
\* returns exactly one result, and its id is the saved turn's id.
C13_RoundTripReturnsSaved ==
    RoundTrip => (Len(docs) = 1 /\ docs[1].id = RoundTripId)

\* C13, amended: the retrieval returns exactly one result, a record nearest
\* to the query embedding; its id is the saved turn's id whenever the saved
\* turn's record is strictly nearest, as it is when it is the only record.
C13_RoundTripReturnsNearest ==
    RoundTrip =>
        /\ Len(docs) = 1
        /\ docs[1].id \in DOMAIN index
        /\ \A other \in DOMAIN index :
              Distance(index[docs[1].id].embedding, last.emb.vec)
                  <= Distance(index[other].embedding, last.emb.vec)
        /\ StrictlyNearest(RoundTripId, last.emb.vec) => docs[1].id = RoundTripId

\* C13 witness: two turns are indexed, the later one is strictly nearest to
\* the embedding of its own phrase and is the one returned.
C13_Witness ==
    /\ RoundTrip
    /\ CollectionCount(index) = 2
    /\ StrictlyNearest(RoundTripId, last.emb.vec)
    /\ Len(docs) = 1
    /\ docs[1] = saves[Len(saves)].turn

\* The lines of a text: str.split("\n"), whose last piece is what follows
\* the last newline, and the lines that a newline ends.
RECURSIVE SplitLines(_, _)
SplitLines(text, cur) ==
    IF text = <<>> THEN <<cur>>
    ELSE IF Head(text) = NL THEN <<cur>> \o SplitLines(Tail(text), <<>>)
    ELSE SplitLines(Tail(text), Append(cur, Head(text)))
LinesOf(text) == SplitLines(text, <<>>)
EndedLines(text) == SubSeq(LinesOf(text), 1, Len(LinesOf(text)) - 1)

HeaderLine == <<"Relevant past conversation snippets (most relevant first):">>
SeparatorLine == <<"---">>
UserLine(d) == <<"User: ", IF "user" \in DOMAIN d THEN d.user ELSE "N/A">>
BotLine(d) == <<"Bot: ", IF "bot" \in DOMAIN d THEN d.bot ELSE "N/A">>

\* format_context has been applied to loop.relevant.
Formatted == loop.pc \in {"assemble", "generate"}

\* C11: format_context of the empty sequence is the empty string; of k
\* turns it is one header line followed, for each turn in order, by its
\* User line, its Bot line and one separator line.
C11_HeaderThenTurns ==
    Formatted =>
        IF loop.relevant = <<>> THEN loop.context = <<>>
        ELSE LET L == EndedLines(loop.context)
                 k == Len(loop.relevant)
             IN  /\ Len(L) = 1 + 3 * k
                 /\ L[1] = HeaderLine
                 /\ \A i \in 1..k :
                       /\ L[3 * i - 1] = UserLine(loop.relevant[i])
                       /\ L[3 * i] = BotLine(loop.relevant[i])
                       /\ L[3 * i + 1] = SeparatorLine

\* C11, amended: format_context of the empty sequence is the empty string;
\* of k turns it is one header line and one separator line followed, for
\* each turn in order, by its User line, its Bot line and one separator
\* line: k User/Bot pairs and k + 1 separator lines, every line ended by a
\* newline.
C11_HeaderSeparatorThenTurns ==
    Formatted =>
        IF loop.relevant = <<>> THEN loop.context = <<>>
        ELSE LET L == EndedLines(loop.context)
                 k == Len(loop.relevant)
             IN  /\ loop.context[Len(loop.context)] = NL
                 /\ Len(L) = 2 + 3 * k
                 /\ L[1] = HeaderLine
                 /\ L[2] = SeparatorLine
                 /\ \A i \in 1..k :
                       /\ L[3 * i] = UserLine(loop.relevant[i])
                       /\ L[3 * i + 1] = BotLine(loop.relevant[i])
                       /\ L[3 * i + 2] = SeparatorLine
                 /\ Cardinality({i \in 1..Len(L) : L[i] = SeparatorLine}) = k + 1

\* C11 witness: two different turns were formatted into eight lines.
C11_Witness ==
    /\ loop.pc = "assemble"
    /\ Len(loop.relevant) = 2
    /\ loop.relevant[1] = Turn("t2", "u2", "b1")
    /\ loop.relevant[2] = Turn("t1", "u1", "b1")
    /\ Len(EndedLines(loop.context)) = 8
    /\ EndedLines(loop.context)[3] = <<"User: ", "u2">>

\* C15: the prompt starts with the system instructions and ends with the
\* cue 'Bot:' right after the line of the current user input; it holds the
\* header and the retrieved turns when retrieval returned at least one
\* turn, and no header when it returned none.
C15_PromptShape ==
    loop.pc = "generate" =>
        LET P == LinesOf(loop.prompt)
            n == Len(P)
            HasHeader == \E i \in 1..n : P[i] = HeaderLine
        IN  /\ loop.prompt[1] = system_prompt
            /\ P[1] = <<system_prompt>>
            /\ n >= 5
            /\ P[n] = <<"Bot:">>
            /\ P[n - 1] = <<"User: ", loop.user_input>>
            /\ P[n - 2] = <<"Current conversation:">>
            /\ IF loop.relevant = <<>>
               THEN ~HasHeader /\ n = 5
               ELSE /\ P[3] = HeaderLine
                    /\ \A k \in 1..Len(loop.relevant) :
                          /\ P[3 * k + 2] = UserLine(loop.relevant[k])
                          /\ P[3 * k + 3] = BotLine(loop.relevant[k])
                    /\ n = 8 + 3 * Len(loop.relevant)

\* C15 witness: a prompt with a context block of three turns and, last,
\* the user line and the cue.
C15_Witness ==
    /\ loop.pc = "generate"
    /\ Len(loop.relevant) = 3
    /\ loop.user_input = "u2"
    /\ loop.prompt[Len(loop.prompt)] = "Bot:"
    /\ \E i \in 1..Len(loop.prompt) : loop.prompt[i] = ContextHeader

\* The five calls of a round, and the state in which a round has ended:
\* main() is back at input() or has died.
FiveCalls ==
    <<"retrieve_relevant", "format_context", "assemble_prompt", "generate", "save_turn">>
RoundOver == loop.turn_id # "" /\ loop.pc \in {"input", "crashed"}

\* C12: every round makes the five calls in order, each once, before the
\* next round begins, and the id it passes to save_turn differs from the
\* id of every earlier round.
C12_RoundCallsInOrder ==
    /\ IsPrefix(loop.trace, FiveCalls)
    /\ RoundOver => loop.trace = FiveCalls
    /\ \A i, j \in 1..Len(loop.ids) : i < j => loop.ids[i] # loop.ids[j]

\* C20: every round started by an input that is neither empty nor a quit
\* command ends with exactly one save_turn call whose bot text is the reply
\* shown; an empty input or a quit command makes no call.
C20_RoundEndsWithSave ==
    /\ RoundOver =>
          /\ Cardinality({i \in 1..Len(loop.trace) : loop.trace[i] = "save_turn"}) = 1
          /\ last.op = "save"
          /\ last.turn.user = loop.user_input
          /\ last.turn.id = loop.turn_id
          /\ loop.shown = <<last.turn.bot>>
    /\ (loop.pc \in {"input", "ended"} /\ loop.turn_id = "") => loop.trace = <<>>

=============================================================================
